---- MODULE Spec2Model ----
(***************************************************************************)
(* Model of src/vectorstore/store.py: class VectorStore, the manager of    *)
(* one persistent Chroma collection.                                       *)
(*                                                                         *)
(* State of the program: the persistence directory (missing, empty or      *)
(* holding an index), the documents stored in the index in insertion       *)
(* order, and the cached handle self._db of every VectorStore instance     *)
(* that works on that directory.                                           *)
(*                                                                         *)
(* The text splitter, the filesystem and Chroma are collaborators whose    *)
(* code is not part of the module.  Each call the program makes to one of  *)
(* them either succeeds or raises; an exception is a ValueError (the class *)
(* the program catches on line 96) or an exception of another class.  The  *)
(* set of outcomes of every step is computed as a set of records, so each  *)
(* handler is one atomic action that picks one outcome.                    *)
(***************************************************************************)
EXTENDS Integers, Sequences, FiniteSets

VARIABLES
    dir,        \* state of persist_directory: "missing", "empty", "nonempty"
    index,      \* the documents persisted in the collection, in insertion order
    db,         \* self._db of the live VectorStore instance (NoHandle is None)
    nextHandle, \* identity of the next Chroma object this instance constructs
    last,       \* the call that has just ended: arguments, outcome, collaborator
                \* calls; NoCall between two calls
    acked,      \* the chunks of the add_documents calls that returned a count
    nAcked,     \* how many add_documents calls returned a count (2 is "two or more")
    nNoIndex,   \* how many searches of the live instance raised the line-64
                \* ValueError (2 is "two or more")
    recovered,  \* after such a search, an add_documents of the live instance with
                \* at least one chunk returned a count on a path holding no index
    freshAdd    \* stage "added": the last call was an add_documents that returned
                \* a count on a path holding no index, with these chunks; stage
                \* "searched": the last call was a search that came right after
                \* such a call; else stage "no"
VARIABLES
    thread,     \* two callers that share the live instance without serializing
                \* their add_documents calls: position in the code and locals
    creates,    \* how many Chroma.from_documents calls returned
    overlapped  \* one of the two calls began while the other was running

vars == <<dir, index, db, nextHandle, last, acked, nAcked, nNoIndex, recovered,
          freshAdd, thread, creates, overlapped>>

----------------------------------------------------------------------------
(* Bounds of the model *)

MaxChunks == 2    \* chunks the splitter returns for one call
MaxIndex == 2     \* documents the index holds (add_documents is not called beyond)

NumTexts == 2     \* distinct chunk texts, which are also the queries
MaxLimit == 2     \* largest limit passed to search
MaxScore == 2     \* relevance scores are k / MaxScore, k in 0..MaxScore

Texts == 1..NumTexts
Limits == 1..MaxLimit
Scores == 0..MaxScore

(* All sequences over S of length at most n *)
SeqsUpTo(S, n) == UNION {[1..k -> S] : k \in 0..n}

ChunkSeqs == SeqsUpTo(Texts, MaxChunks)

----------------------------------------------------------------------------
(* Values *)

\* self._db = None (line 28)
NoHandle == 0

\* The documents parameter of _get_or_create_db: None (the default, line 37)
\* or a list.  `documents is None` (lines 56, 62) tells None from the empty list.
None == [present |-> FALSE, docs |-> <<>>]
Some(docs) == [present |-> TRUE, docs |-> docs]

\* Exceptions: the class the except clause of line 96 tests, and where it was raised
ErrKinds == {"ValueError", "OtherError"}
\* os.makedirs and os.listdir raise OSError, which is no ValueError
FsErrKinds == {"OtherError"}
Err(kind, src) == [kind |-> kind, src |-> src]
NoErr == Err("none", "none")
\* raise ValueError("No existing vector store found ...") (lines 64-66)
NoIndexError == Err("ValueError", "noindex")
\* reading the local `splits` on line 99 when line 88 never assigned it
UnboundSplits == Err("UnboundLocalError", "splits")

\* The state one handler works on, with the log of the
\* collaborator calls it makes and of its _get_or_create_db invocations
Current ==
    [dir |-> dir, index |-> index, db |-> db, nh |-> nextHandle,
     log |-> <<>>, opens |-> <<>>]

Logged(st, op, err, n) ==
    [st EXCEPT !.log = Append(@, [op |-> op, err |-> err, n |-> n])]

Prefix(s, k) == SubSeq(s, 1, k)

----------------------------------------------------------------------------
(* Collaborators.  Each operator is the set of outcomes [st, err, ...] of    *)
(* one call: the state after the call and the exception raised, if any.     *)

\* Variant of Makedirs that creates nothing
Makedirs_Nothing(st) ==
    {[st |-> Logged(st, "makedirs", NoErr, 0), err |-> NoErr]}

\* os.makedirs(self.persist_directory, exist_ok=True)
Makedirs(st) ==
    {[st |-> Logged([st EXCEPT !.dir = IF @ = "missing" THEN "empty" ELSE @],
                    "makedirs", NoErr, 0),
      err |-> NoErr]}
    \cup {[st |-> Logged(st, "makedirs", Err(k, "makedirs"), 0),
           err |-> Err(k, "makedirs")] : k \in FsErrKinds}

\* Variant of Listdir that tests os.path.exists(d) alone
Listdir_ExistsOnly(st) ==
    {[st |-> Logged(st, "listdir", NoErr, 0), err |-> NoErr,
      nonempty |-> (st.dir # "missing")]}

\* os.path.exists(d) and os.listdir(d): is the directory non-empty
Listdir(st) ==
    {[st |-> Logged(st, "listdir", NoErr, 0), err |-> NoErr,
      nonempty |-> (st.dir = "nonempty")]}
    \cup {[st |-> Logged(st, "listdir", Err(k, "listdir"), 0),
           err |-> Err(k, "listdir"), nonempty |-> FALSE] : k \in FsErrKinds}

\* Variant of Load that opens a new, empty collection instead of the
\* persisted one
Load_EmptyCollection(st) ==
    {[st |-> Logged([st EXCEPT !.nh = @ + 1, !.index = <<>>], "load", NoErr, 0),
      err |-> NoErr, handle |-> st.nh]}

\* Chroma(persist_directory=..., ...): open the persisted collection
Load(st) ==
    {[st |-> Logged([st EXCEPT !.nh = @ + 1], "load", NoErr, 0),
      err |-> NoErr, handle |-> st.nh]}
    \cup {[st |-> Logged(st, "load", Err(k, "load"), 0),
           err |-> Err(k, "load"), handle |-> NoHandle] : k \in ErrKinds}

\* db.add_documents(docs): embed and insert docs.  A call that raises may
\* have inserted any prefix of docs.
Insert(st, docs) ==
    {[st |-> Logged([st EXCEPT !.index = @ \o docs], "insert", NoErr, Len(docs)),
      err |-> NoErr]}
    \cup {[st |-> Logged([st EXCEPT !.index = @ \o Prefix(docs, n)],
                         "insert", Err(k, "insert"), n),
           err |-> Err(k, "insert")] : k \in ErrKinds, n \in 0..Len(docs)}

\* What the collection holds after Chroma.from_documents wrote docs.  The
\* program calls it on a directory it saw empty, where this is docs; when
\* another caller has written the collection in between, the library either
\* adds docs to it or replaces it.
Written(st, docs) == {docs, st.index \o docs}

\* Chroma.from_documents(documents=docs, ..., persist_directory=...): create
\* the collection in the directory and insert docs.  A call that raises has
\* written nothing, or has written the collection with a prefix of docs.
Create(st, docs) ==
    {[st |-> Logged([st EXCEPT !.dir = "nonempty", !.index = w, !.nh = @ + 1],
                    "create", NoErr, Len(docs)),
      err |-> NoErr, handle |-> st.nh] : w \in Written(st, docs)}
    \cup {[st |-> Logged(st, "create", Err(k, "create"), 0),
           err |-> Err(k, "create"), handle |-> NoHandle] : k \in ErrKinds}
    \cup UNION {{[st |-> Logged([st EXCEPT !.dir = "nonempty", !.index = w],
                                 "create", Err(k, "create"), n),
                   err |-> Err(k, "create"), handle |-> NoHandle]
                     : k \in ErrKinds, w \in Written(st, Prefix(docs, n))}
                 : n \in 0..Len(docs)}

\* The relevance score Chroma computes for a stored text and a query: the
\* embedding maps equal texts to equal vectors, and the score decreases with
\* the distance of the two vectors (1.0 is MaxScore, 0.0 is 0).
Relevance(query, text) ==
    LET d == IF query >= text THEN query - text ELSE text - query
    IN  IF d >= MaxScore THEN 0 ELSE MaxScore - d

\* db.similarity_search_with_relevance_scores(query, k=k, score_threshold=t):
\* the k nearest stored documents by descending score (ties in insertion
\* order), without those scoring below t.
SimilaritySearch(idx, query, k, t) ==
    LET n == Len(idx)
        Before(j, i) == \/ Relevance(query, idx[j]) > Relevance(query, idx[i])
                        \/ /\ Relevance(query, idx[j]) = Relevance(query, idx[i])
                           /\ j < i
        Rank(i) == Cardinality({j \in 1..n : Before(j, i)}) + 1
        ranked == [r \in 1..n |-> CHOOSE i \in 1..n : Rank(i) = r]
        m == IF k < n THEN k ELSE n
        top == [r \in 1..m |->
                  [doc |-> idx[ranked[r]], score |-> Relevance(query, idx[ranked[r]])]]
    IN  SelectSeq(top, LAMBDA x : x.score >= t)

Query(st, query, k, t) ==
    {[st |-> Logged(st, "query", NoErr, 0), err |-> NoErr,
      results |-> SimilaritySearch(st.index, query, k, t)]}
    \cup {[st |-> Logged(st, "query", Err(e, "query"), 0),
           err |-> Err(e, "query"), results |-> <<>>] : e \in ErrKinds}

\* text_splitter.split_documents(documents) (lines 81-88): the chunks are an
\* input of the model, any list of at most MaxChunks chunks.
Split(st, chunks) ==
    {[st |-> Logged(st, "split", NoErr, Len(chunks)), err |-> NoErr]}
    \cup {[st |-> Logged(st, "split", Err(k, "split"), 0),
           err |-> Err(k, "split")] : k \in ErrKinds}

----------------------------------------------------------------------------
(* VectorStore._get_or_create_db (lines 37-75).  Outcomes [st, ret, err]:   *)
(* the state after the call, the handle returned and the exception raised.  *)

Result(st, ret, err) == [st |-> st, ret |-> ret, err |-> err]

\* Variant of LoadExisting that keeps the Chroma object in a local variable
\* instead of self._db
LoadExisting_HandleNotCached(st, documents) ==
    UNION {
      IF c.err # NoErr THEN {Result(c.st, NoHandle, c.err)}
      ELSE IF documents.present
           THEN {Result(a.st, IF a.err = NoErr THEN c.handle ELSE NoHandle, a.err)
                   : a \in Insert(c.st, documents.docs)}
           ELSE {Result(c.st, c.handle, NoErr)}
      : c \in Load(st)}

\* lines 49-59: the directory is non-empty
LoadExisting(st, documents) ==
    UNION {
      IF c.err # NoErr THEN {Result(c.st, NoHandle, c.err)}
      ELSE LET loaded == [c.st EXCEPT !.db = c.handle]
           IN  IF documents.present
               THEN {Result(a.st, IF a.err = NoErr THEN a.st.db ELSE NoHandle, a.err)
                       : a \in Insert(loaded, documents.docs)}
               ELSE {Result(loaded, loaded.db, NoErr)}
      : c \in Load(st)}

\* Variant of CreateNew without the `documents is None` test of line 62: an
\* absent list is taken as an empty one.
CreateNew_WithoutNoneTest(st, documents) ==
    {IF c.err # NoErr THEN Result(c.st, NoHandle, c.err)
     ELSE Result([c.st EXCEPT !.db = c.handle], c.handle, NoErr)
       : c \in Create(st, documents.docs)}

\* Variant of CreateNew that creates the collection without the documents
CreateNew_WithoutDocuments(st, documents) ==
    IF ~documents.present
    THEN {Result(st, NoHandle, NoIndexError)}
    ELSE {IF c.err # NoErr THEN Result(c.st, NoHandle, c.err)
          ELSE Result([c.st EXCEPT !.db = c.handle], c.handle, NoErr)
            : c \in Create(st, <<>>)}

\* Variant of CreateNew that keeps the new Chroma object in a local variable
\* instead of self._db
CreateNew_HandleNotCached(st, documents) ==
    IF ~documents.present
    THEN {Result(st, NoHandle, NoIndexError)}
    ELSE {IF c.err # NoErr THEN Result(c.st, NoHandle, c.err)
          ELSE Result(c.st, c.handle, NoErr)
            : c \in Create(st, documents.docs)}

\* lines 61-75: the directory is empty
CreateNew(st, documents) ==
    IF ~documents.present
    THEN {Result(st, NoHandle, NoIndexError)}
    ELSE {IF c.err # NoErr THEN Result(c.st, NoHandle, c.err)
          ELSE Result([c.st EXCEPT !.db = c.handle], c.handle, NoErr)
            : c \in Create(st, documents.docs)}

\* Variant of OpenDirectory that tests `documents is None` before the
\* directory: documents given always create a new index
OpenDirectory_CreatesWhenGivenDocuments(st, documents) ==
    UNION {
      IF m.err # NoErr THEN {Result(m.st, NoHandle, m.err)}
      ELSE UNION {
        IF l.err # NoErr THEN {Result(l.st, NoHandle, l.err)}
        ELSE IF documents.present THEN CreateNew(l.st, documents)
        ELSE IF l.nonempty THEN LoadExisting(l.st, documents)
        ELSE CreateNew(l.st, documents)
        : l \in Listdir(m.st)}
      : m \in Makedirs(st)}

\* lines 43-75: no handle is cached
OpenDirectory(st, documents) ==
    UNION {
      IF m.err # NoErr THEN {Result(m.st, NoHandle, m.err)}
      ELSE UNION {
        IF l.err # NoErr THEN {Result(l.st, NoHandle, l.err)}
        ELSE IF l.nonempty THEN LoadExisting(l.st, documents)
        ELSE CreateNew(l.st, documents)
        : l \in Listdir(m.st)}
      : m \in Makedirs(st)}

\* Variant of GetOrCreateDb without the test of lines 39-41
GetOrCreateDb_AlwaysOpens(st, documents) == OpenDirectory(st, documents)

GetOrCreateDb(st, documents) ==
    IF st.db # NoHandle
    THEN {Result(st, st.db, NoErr)}
    ELSE OpenDirectory(st, documents)

\* One invocation of _get_or_create_db, recorded in st.opens
OpenOrCreate(st, documents) ==
    {[r EXCEPT !.st.opens = Append(@,
        [pending |-> documents, cached |-> st.db,
         pre |-> [dir |-> st.dir, index |-> st.index, nh |-> st.nh],
         post |-> [dir |-> r.st.dir, index |-> r.st.index, nh |-> r.st.nh],
         db |-> r.st.db, ret |-> r.ret, err |-> r.err,
         calls |-> SubSeq(r.st.log, Len(st.log) + 1, Len(r.st.log))])]
      : r \in GetOrCreateDb(st, documents)}

----------------------------------------------------------------------------
(* The public operations.  Outcomes [st, kind, count, results, err].        *)

Return(st, count, results) ==
    [st |-> st, kind |-> "ret", count |-> count, results |-> results, err |-> NoErr]
Raise(st, err) ==
    [st |-> st, kind |-> "raise", count |-> 0, results |-> <<>>, err |-> err]

\* Variant of CountReturned that reports the size of the index
CountReturned_IndexSize(st, splits) == Len(st.index)

\* return len(splits) (lines 95 and 100)
CountReturned(st, splits) == Len(splits)

\* Variant of ExceptValueError that drops the cached handle before it tries
\* again
ExceptValueError_ResetsHandle(st, err, bound, splits) ==
    IF err.kind # "ValueError" THEN {Raise(st, err)}
    ELSE IF ~bound THEN {Raise(st, UnboundSplits)}
    ELSE {IF o.err # NoErr THEN Raise(o.st, o.err) ELSE Return(o.st, Len(splits), <<>>)
            : o \in OpenOrCreate([st EXCEPT !.db = NoHandle], Some(splits))}

\* Variant of ExceptValueError that inserts the chunks itself after the
\* second _get_or_create_db
ExceptValueError_InsertsAgain(st, err, bound, splits) ==
    IF err.kind # "ValueError" THEN {Raise(st, err)}
    ELSE IF ~bound THEN {Raise(st, UnboundSplits)}
    ELSE UNION {
      IF o.err # NoErr THEN {Raise(o.st, o.err)}
      ELSE {IF a.err # NoErr THEN Raise(a.st, a.err)
            ELSE Return(a.st, Len(splits), <<>>) : a \in Insert(o.st, splits)}
      : o \in OpenOrCreate(st, Some(splits))}

\* lines 96-100: the except clause, entered with the exception raised in the
\* try block; bound tells whether line 88 had assigned splits.
ExceptValueError(st, err, bound, splits) ==
    IF err.kind # "ValueError" THEN {Raise(st, err)}
    ELSE IF ~bound THEN {Raise(st, UnboundSplits)}
    ELSE {IF o.err # NoErr THEN Raise(o.st, o.err) ELSE Return(o.st, CountReturned(o.st, splits), <<>>)
            : o \in OpenOrCreate(st, Some(splits))}

\* VectorStore.add_documents (lines 77-100); chunks is what the splitter
\* returns for the documents of the call when it does not raise.
AddDocumentsOutcomes(st, chunks) ==
    UNION {
      IF s.err # NoErr THEN ExceptValueError(s.st, s.err, FALSE, <<>>)
      ELSE UNION {
        IF o.err # NoErr THEN ExceptValueError(o.st, o.err, TRUE, chunks)
        ELSE UNION {
          IF a.err # NoErr THEN ExceptValueError(a.st, a.err, TRUE, chunks)
          ELSE {Return(a.st, CountReturned(a.st, chunks), <<>>)}
          : a \in Insert(o.st, chunks)}
        : o \in OpenOrCreate(s.st, None)}
      : s \in Split(st, chunks)}

\* Variant of QueryArgs that leaves the library's defaults in place: four
\* results, no threshold
QueryArgs_Defaults(limit, score_threshold) == [k |-> 4, t |-> 0]

\* The arguments search passes on: k=limit, score_threshold=score_threshold
\* (lines 112-113)
QueryArgs(limit, score_threshold) == [k |-> limit, t |-> score_threshold]

\* VectorStore.search (lines 102-115)
SearchOutcomes(st, query, limit, score_threshold) ==
    UNION {
      IF o.err # NoErr THEN {Raise(o.st, o.err)}
      ELSE {IF q.err # NoErr THEN Raise(q.st, q.err) ELSE Return(q.st, 0, q.results)
              : q \in Query(o.st, query, QueryArgs(limit, score_threshold).k,
                                   QueryArgs(limit, score_threshold).t)}
      : o \in OpenOrCreate(st, None)}

----------------------------------------------------------------------------
(* The state machine.  Calls are sequential (spec section 5: each call fully *)
(* completes before the next): a call is one step, which leaves what the     *)
(* caller observes in `last`; the caller then takes the result.              *)

NoFreshAdd == [stage |-> "no", chunks |-> <<>>]

\* The two callers of the interleaved calls, and a caller that has not called
\* yet: where it is in the code (pc), whether it is in the try block or in
\* the except clause (phase), its local splits (bound: line 88 assigned it),
\* the Chroma object it holds, and how its call ended.
Threads == {1, 2}
NotCalled ==
    [pc |-> "idle", phase |-> "try", splits |-> <<>>, bound |-> FALSE,
     h |-> NoHandle, kind |-> "none", err |-> NoErr, caught |-> NoErr]

\* The callers of the sequential calls are not these two
Serialized == UNCHANGED <<thread, creates, overlapped>>

NoCall ==
    [op |-> "none", chunks |-> <<>>, query |-> 0, limit |-> 0, threshold |-> 0,
     pre |-> [dir |-> "missing", index |-> <<>>, db |-> NoHandle],
     kind |-> "none", count |-> 0, results |-> <<>>, err |-> NoErr,
     log |-> <<>>, opens |-> <<>>]

\* __init__ (lines 23-28), on a persistence path that was never populated:
\* the directory is missing, or exists and is empty.
Init ==
    /\ dir \in {"missing", "empty"}
    /\ index = <<>>
    /\ db = NoHandle
    /\ nextHandle = 1
    /\ last = NoCall
    /\ acked = <<>>
    /\ nAcked = 0
    /\ nNoIndex = 0
    /\ recovered = FALSE
    /\ freshAdd = NoFreshAdd
    /\ thread = [t \in Threads |-> NotCalled]
    /\ creates = 0
    /\ overlapped = FALSE

\* The effect of outcome r of a call on the program's state
Commit(r) ==
    /\ dir' = r.st.dir
    /\ index' = r.st.index
    /\ db' = r.st.db
    /\ nextHandle' = r.st.nh

Observed(op, chunks, query, limit, threshold, r) ==
    [op |-> op, chunks |-> chunks, query |-> query, limit |-> limit,
     threshold |-> threshold,
     pre |-> [dir |-> dir, index |-> index, db |-> db],
     kind |-> r.kind, count |-> r.count, results |-> r.results, err |-> r.err,
     log |-> r.st.log, opens |-> r.st.opens]

\* add_documents is called while the index, and the chunks acknowledged so
\* far, stay within MaxIndex.
AddDocuments ==
    /\ last = NoCall
    /\ \E chunks \in ChunkSeqs :
         /\ Len(index) + Len(chunks) <= MaxIndex
         /\ Len(acked) + Len(chunks) <= MaxIndex
         /\ \E r \in AddDocumentsOutcomes(Current, chunks) :
               /\ Commit(r)
               /\ last' = Observed("add", chunks, 0, 0, 0, r)
               /\ acked' = IF r.kind = "ret" THEN acked \o chunks ELSE acked
               /\ nAcked' = IF r.kind = "ret" /\ nAcked < 2 THEN nAcked + 1 ELSE nAcked
               /\ recovered' = \/ recovered
                               \/ /\ nNoIndex > 0
                                  /\ r.kind = "ret"
                                  /\ dir # "nonempty"
                                  /\ Len(chunks) >= 1
               /\ freshAdd' = IF r.kind = "ret" /\ dir # "nonempty"
                              THEN [stage |-> "added", chunks |-> chunks]
                              ELSE NoFreshAdd
               /\ UNCHANGED nNoIndex
    /\ Serialized

Search ==
    /\ last = NoCall
    /\ \E query \in Texts, limit \in Limits, score_threshold \in Scores :
         \E r \in SearchOutcomes(Current, query, limit, score_threshold) :
            /\ Commit(r)
            /\ last' = Observed("search", <<>>, query, limit, score_threshold, r)
            /\ nNoIndex' = IF r.err = NoIndexError /\ nNoIndex < 2
                           THEN nNoIndex + 1 ELSE nNoIndex
            /\ freshAdd' = IF freshAdd.stage = "added"
                           THEN [freshAdd EXCEPT !.stage = "searched"]
                           ELSE NoFreshAdd
            /\ UNCHANGED <<acked, nAcked, recovered>>
    /\ Serialized

\* The caller takes the result of the call that ended
ReturnToCaller ==
    /\ last # NoCall
    /\ last' = NoCall
    /\ UNCHANGED <<dir, index, db, nextHandle, acked, nAcked, nNoIndex, recovered,
                   freshAdd>>
    /\ Serialized

\* __init__ (lines 23-28): a new VectorStore on the same persist_directory
\* replaces the live one (a later run of the program); its handle is None.
Construct ==
    /\ last = NoCall
    /\ db' = NoHandle
    /\ nextHandle' = 1
    /\ nNoIndex' = 0
    /\ recovered' = FALSE
    /\ freshAdd' = NoFreshAdd
    /\ UNCHANGED <<dir, index, last, acked, nAcked>>
    /\ Serialized

Next ==
    \/ AddDocuments
    \/ Search
    \/ ReturnToCaller
    \/ Construct

Spec == Init /\ [][Next]_vars

----------------------------------------------------------------------------
(* Two add_documents calls on the live instance that are not serialized.    *)
(* The class holds no lock, so the two callers interleave between any two   *)
(* of: the splitter call, the test of self._db (line 39), makedirs (line    *)
(* 44), the directory test (line 48), the construction of the Chroma object *)
(* (lines 50 and 69), the assignment to self._db (lines 50 and 69), and the *)
(* inserts (lines 58 and 94).  Each action is one such step of caller t.    *)

Other(t) == 3 - t

\* the sequential calls' observations play no part in the interleaved calls
Unobserved == UNCHANGED <<last, acked, nAcked, nNoIndex, recovered, freshAdd>>

Running(th) == th.pc \notin {"idle", "done"}

\* return len(splits) (lines 95 and 100)
Returned(th) == [th EXCEPT !.pc = "done", !.kind = "ret"]

\* the exception leaves add_documents
Propagated(th, err) == [th EXCEPT !.pc = "done", !.kind = "raise", !.err = err]

\* An exception raised at this point of the call: line 96 catches a
\* ValueError raised in the try block and line 99 calls _get_or_create_db
\* again, which reads splits; every other exception leaves the call.
Raised(th, err) ==
    IF th.phase = "try" /\ err.kind = "ValueError"
    THEN IF th.bound
         THEN [th EXCEPT !.phase = "except", !.pc = "check", !.caught = err,
                         !.h = NoHandle]
         ELSE Propagated([th EXCEPT !.caught = err], UnboundSplits)
    ELSE Propagated(th, err)

\* The documents argument of the running _get_or_create_db: none on line 93,
\* splits on line 99
Documents(th) == IF th.phase = "except" THEN Some(th.splits) ELSE None

\* _get_or_create_db returns handle h: line 93 goes on to the insert of line
\* 94, line 99 to the return of line 100
GotDb(th, h) ==
    IF th.phase = "try" THEN [th EXCEPT !.pc = "insert", !.h = h]
    ELSE Returned([th EXCEPT !.h = h])

\* the step of caller t leaves the other caller alone
Step(t, th) == thread' = [thread EXCEPT ![t] = th]

\* add_documents is called and runs the splitter (lines 79-89).  The two
\* batches together stay within MaxIndex.
Call(t) ==
    /\ thread[t].pc = "idle"
    /\ \E chunks \in ChunkSeqs :
          /\ Len(chunks) + Len(thread[Other(t)].splits) <= MaxIndex
          /\ \E s \in Split(Current, chunks) :
                Step(t, IF s.err = NoErr
                        THEN [thread[t] EXCEPT !.pc = "check", !.splits = chunks,
                                               !.bound = TRUE]
                        ELSE Raised(thread[t], s.err))
    /\ overlapped' = (overlapped \/ Running(thread[Other(t)]))
    /\ UNCHANGED <<dir, index, db, nextHandle, creates>>
    /\ Unobserved

\* Variant of CheckHandle without the test of lines 39-41
CheckHandle_AlwaysOpens(t) ==
    /\ thread[t].pc = "check"
    /\ Step(t, [thread[t] EXCEPT !.pc = "makedirs"])
    /\ UNCHANGED <<dir, index, db, nextHandle, creates, overlapped>>
    /\ Unobserved

\* lines 39-41: if self._db is not None: return self._db
CheckHandle(t) ==
    /\ thread[t].pc = "check"
    /\ Step(t, IF db # NoHandle THEN GotDb(thread[t], db)
               ELSE [thread[t] EXCEPT !.pc = "makedirs"])
    /\ UNCHANGED <<dir, index, db, nextHandle, creates, overlapped>>
    /\ Unobserved

\* line 44
MakeDirectory(t) ==
    /\ thread[t].pc = "makedirs"
    /\ \E m \in Makedirs(Current) :
          /\ dir' = m.st.dir
          /\ Step(t, IF m.err = NoErr THEN [thread[t] EXCEPT !.pc = "listdir"]
                     ELSE Raised(thread[t], m.err))
    /\ UNCHANGED <<index, db, nextHandle, creates, overlapped>>
    /\ Unobserved

\* lines 48 and 62-66: the directory test, and `documents is None` when the
\* directory is empty
CheckDirectory(t) ==
    /\ thread[t].pc = "listdir"
    /\ \E l \in Listdir(Current) :
          Step(t, IF l.err # NoErr THEN Raised(thread[t], l.err)
                  ELSE IF l.nonempty THEN [thread[t] EXCEPT !.pc = "load"]
                  ELSE IF ~Documents(thread[t]).present
                       THEN Raised(thread[t], NoIndexError)
                       ELSE [thread[t] EXCEPT !.pc = "create"])
    /\ UNCHANGED <<dir, index, db, nextHandle, creates, overlapped>>
    /\ Unobserved

\* lines 50-54, the call Chroma(...): its value is not yet in self._db
LoadIndex(t) ==
    /\ thread[t].pc = "load"
    /\ \E c \in Load(Current) :
          /\ nextHandle' = c.st.nh
          /\ Step(t, IF c.err = NoErr
                     THEN [thread[t] EXCEPT !.pc = "cacheLoaded", !.h = c.handle]
                     ELSE Raised(thread[t], c.err))
    /\ UNCHANGED <<dir, index, db, creates, overlapped>>
    /\ Unobserved

\* lines 69-74, the call Chroma.from_documents(...): its value is not yet in
\* self._db
CreateIndex(t) ==
    /\ thread[t].pc = "create"
    /\ \E c \in Create(Current, Documents(thread[t]).docs) :
          /\ dir' = c.st.dir
          /\ index' = c.st.index
          /\ nextHandle' = c.st.nh
          /\ creates' = IF c.err = NoErr THEN creates + 1 ELSE creates
          /\ Step(t, IF c.err = NoErr
                     THEN [thread[t] EXCEPT !.pc = "cacheCreated", !.h = c.handle]
                     ELSE Raised(thread[t], c.err))
    /\ UNCHANGED <<db, overlapped>>
    /\ Unobserved

\* the assignment to self._db of line 50 or 69, and what follows it: the
\* insert of line 58 when documents were given, else the return of self._db
\* (lines 59 and 75)
CacheHandle(t) ==
    /\ thread[t].pc \in {"cacheLoaded", "cacheCreated"}
    /\ db' = thread[t].h
    /\ Step(t, IF thread[t].pc = "cacheLoaded" /\ Documents(thread[t]).present
               THEN [thread[t] EXCEPT !.pc = "insertLoaded"]
               ELSE GotDb(thread[t], thread[t].h))
    /\ UNCHANGED <<dir, index, nextHandle, creates, overlapped>>
    /\ Unobserved

\* line 58: self._db.add_documents(documents), then the return of line 59
InsertLoaded(t) ==
    /\ thread[t].pc = "insertLoaded"
    /\ \E a \in Insert(Current, Documents(thread[t]).docs) :
          /\ index' = a.st.index
          /\ Step(t, IF a.err = NoErr THEN GotDb(thread[t], db)
                     ELSE Raised(thread[t], a.err))
    /\ UNCHANGED <<dir, db, nextHandle, creates, overlapped>>
    /\ Unobserved

\* line 94: db.add_documents(splits), then the return of line 95
InsertSplits(t) ==
    /\ thread[t].pc = "insert"
    /\ \E a \in Insert(Current, thread[t].splits) :
          /\ index' = a.st.index
          /\ Step(t, IF a.err = NoErr THEN Returned(thread[t])
                     ELSE Raised(thread[t], a.err))
    /\ UNCHANGED <<dir, db, nextHandle, creates, overlapped>>
    /\ Unobserved

NextInterleaved ==
    \/ \E t \in Threads : Call(t)
    \/ \E t \in Threads : CheckHandle(t)
    \/ \E t \in Threads : MakeDirectory(t)
    \/ \E t \in Threads : CheckDirectory(t)
    \/ \E t \in Threads : LoadIndex(t)
    \/ \E t \in Threads : CreateIndex(t)
    \/ \E t \in Threads : CacheHandle(t)
    \/ \E t \in Threads : InsertLoaded(t)
    \/ \E t \in Threads : InsertSplits(t)

SpecInterleaved == Init /\ [][NextInterleaved]_vars

----------------------------------------------------------------------------
(* Vocabulary of the properties *)

Count(seq, t) == Cardinality({i \in DOMAIN seq : seq[i] = t})

\* every element of small is in big, as many times
Contains(big, small) == \A t \in Texts : Count(big, t) >= Count(small, t)

\* the exceptions the collaborators raised during the last call, in order
RaisedByCollaborators ==
    LET failed == SelectSeq(last.log, LAMBDA c : c.err # NoErr)
    IN  [k \in DOMAIN failed |-> failed[k].err]

NeverPopulated(d) == d \in {"missing", "empty"}

----------------------------------------------------------------------------
(* C1: an add_documents call that returns a count has inserted every chunk  *)
(* the splitter produced for it: the index afterwards is the index before   *)
(* the call followed by these chunks.                                       *)
C1_ReturnedCountMeansInserted ==
    (last.op = "add" /\ last.kind = "ret")
        => index = last.pre.index \o last.chunks

(* C2: an exception raised by a collaborator during add_documents or search *)
(* reaches the caller as that same exception, and nothing is attempted      *)
(* after it: the call raises the first exception a collaborator raised, and *)
(* no collaborator raised a second one.                                     *)
C2_CollaboratorErrorsPropagate ==
    RaisedByCollaborators # <<>>
        => /\ last.kind = "raise"
           /\ last.err = RaisedByCollaborators[1]
           /\ Len(RaisedByCollaborators) = 1

(* C3: search on an instance with no cached handle, on a path that was      *)
(* never populated, raises and returns no results, leaves the handle None   *)
(* and the index absent; the exception is the line-64 ValueError unless the *)
(* filesystem raised first.  The state it leaves satisfies the same         *)
(* precondition, so the same holds for every repetition.                    *)
C3_SearchOnFreshPathFails ==
    (last.op = "search" /\ last.pre.db = NoHandle /\ NeverPopulated(last.pre.dir))
        => /\ last.kind = "raise"
           /\ last.results = <<>>
           /\ RaisedByCollaborators = <<>> => last.err = NoIndexError
           /\ RaisedByCollaborators # <<>> => last.err = RaisedByCollaborators[1]
           /\ db = NoHandle
           /\ NeverPopulated(dir)
           /\ index = <<>>

\* a second search in a row fails with the no-index error
C3_Witness ==
    /\ last.op = "search"
    /\ last.err = NoIndexError
    /\ nNoIndex = 2
    /\ last.pre.dir = "empty"
    /\ db = NoHandle

(* C4: after two add_documents calls on the path have returned a count, by *)
(* one instance or by two instances one after the other, the index holds    *)
(* every chunk of both batches.                                             *)
C4_BothBatchesInIndex ==
    nAcked >= 2 => Contains(index, acked)

(* C5: the index is created only by an ingestion of at least one chunk: an  *)
(* add_documents call that returns on a path that held no index leaves an   *)
(* index, and a cached handle, only if it inserted at least one chunk.      *)
C5_IndexCreatedByFirstChunk ==
    (last.op = "add" /\ last.kind = "ret" /\ NeverPopulated(last.pre.dir))
        => ((dir = "nonempty" \/ db # NoHandle) => Len(index) >= 1)

(* C6: add_documents returns the number of chunks the splitter produced    *)
(* for this call, whether it appended to an index or created one.           *)
C6_ReturnsNumberOfChunks ==
    (last.op = "add" /\ last.kind = "ret") => last.count = Len(last.chunks)

\* an append to a non-empty index returned a count that is not the index size
C6_Witness ==
    /\ last.op = "add"
    /\ last.kind = "ret"
    /\ last.pre.index # <<>>
    /\ last.chunks # <<>>
    /\ last.count = Len(last.chunks)
    /\ last.count # Len(index)
    /\ index = last.pre.index \o last.chunks

(* C7: the sequence search returns has at most limit elements, and none    *)
(* with a relevance score below score_threshold.                            *)
C7_SearchRespectsLimitAndThreshold ==
    (last.op = "search" /\ last.kind = "ret")
        => /\ Len(last.results) <= last.limit
           /\ \A k \in DOMAIN last.results : last.results[k].score >= last.threshold

\* a search whose threshold removed a stored document that the limit admitted
C7_Witness ==
    /\ last.op = "search"
    /\ last.kind = "ret"
    /\ last.results # <<>>
    /\ Len(last.results) < last.limit
    /\ Len(last.results) < Len(index)
    /\ \E k \in DOMAIN index : Relevance(last.query, index[k]) < last.threshold

(* C8: search does not change the documents stored in the index, whether it *)
(* returns or raises.                                                       *)
C8_SearchKeepsIndex ==
    last.op = "search" => index = last.pre.index

\* a search that had to load the index returned documents of it
C8_Witness ==
    /\ last.op = "search"
    /\ last.kind = "ret"
    /\ last.pre.db = NoHandle
    /\ db # NoHandle
    /\ last.results # <<>>
    /\ index = last.pre.index

(* C9: every invocation of _get_or_create_db made while a handle is cached  *)
(* returns that handle and does nothing else, with or without documents: no *)
(* collaborator is called, the directory, the index and the cached handle   *)
(* are as before.                                                           *)
C9_CachedHandleFastPath ==
    \A k \in DOMAIN last.opens :
        LET o == last.opens[k]
        IN  o.cached # NoHandle
              => /\ o.err = NoErr
                 /\ o.ret = o.cached
                 /\ o.db = o.cached
                 /\ o.calls = <<>>
                 /\ o.post = o.pre

\* _get_or_create_db was invoked with documents while a handle was cached
C9_Witness ==
    \E k \in DOMAIN last.opens :
        /\ last.opens[k].cached # NoHandle
        /\ last.opens[k].pending.present
        /\ last.opens[k].pending.docs # <<>>
        /\ last.opens[k].ret = last.opens[k].cached

(* C10: the no-index failure is recoverable on the same instance.  After a  *)
(* search of the instance raised the line-64 ValueError, an add_documents   *)
(* with at least one chunk that returns on a path holding no index has      *)
(* created the index with exactly these chunks and cached the handle, and   *)
(* no later search of the instance raises the line-64 ValueError.           *)
C10_RecoverableByAddDocuments ==
    /\ (/\ last.op = "add"
        /\ last.kind = "ret"
        /\ nNoIndex > 0
        /\ NeverPopulated(last.pre.dir)
        /\ last.chunks # <<>>)
          => /\ dir = "nonempty"
             /\ index = last.chunks
             /\ db # NoHandle
    /\ recovered => db # NoHandle
    /\ (last.op = "search" /\ recovered) => last.err # NoIndexError

\* after a failed search and a recovering add_documents, a search returns
\* documents
C10_Witness ==
    /\ recovered
    /\ last.op = "search"
    /\ last.kind = "ret"
    /\ last.results # <<>>

(* C11: after an add_documents that returned on a path holding no index,   *)
(* the search that follows immediately, with a query equal to the text of   *)
(* one of the chunks just inserted, returns a chunk with that text as its   *)
(* first result, with a score of at least score_threshold.                  *)
C11_ExactTextIsTopResult ==
    (/\ freshAdd.stage = "searched"
     /\ last.kind = "ret"
     /\ \E k \in DOMAIN freshAdd.chunks : freshAdd.chunks[k] = last.query)
        => /\ last.results # <<>>
           /\ last.results[1].doc = last.query
           /\ last.results[1].score >= last.threshold

\* the query is the text of the second of two chunks just inserted, and the
\* threshold is the highest one
C11_Witness ==
    /\ freshAdd.stage = "searched"
    /\ last.kind = "ret"
    /\ Len(freshAdd.chunks) = 2
    /\ freshAdd.chunks[1] # last.query
    /\ freshAdd.chunks[2] = last.query
    /\ last.threshold = MaxScore
    /\ last.results # <<>>
    /\ last.results[1].doc = last.query

\* the calls of the last call that hand documents to the vector database
InsertingCalls == SelectSeq(last.log, LAMBDA c : c.op \in {"insert", "create"})

(* C14: within one add_documents call no chunk reaches the vector database  *)
(* more than once: at most one insert or create is issued over the try      *)
(* block and the except clause together, and the index afterwards is the    *)
(* index before followed by a prefix of the chunks of the call.             *)
C14_NoChunkInsertedTwice ==
    last.op = "add"
        => /\ Len(InsertingCalls) <= 1
           /\ \E n \in 0..Len(last.chunks) :
                 index = last.pre.index \o Prefix(last.chunks, n)

\* the insert of line 94 raised a ValueError after a partial insertion, and
\* the except clause called _get_or_create_db with the chunks
C14_Witness ==
    /\ last.op = "add"
    /\ last.kind = "ret"
    /\ Len(last.opens) = 2
    /\ last.opens[2].pending = Some(last.chunks)
    /\ Len(last.chunks) = 2
    /\ index = last.pre.index \o Prefix(last.chunks, 1)
    /\ \E k \in DOMAIN last.log :
          last.log[k].op = "insert" /\ last.log[k].err.kind = "ValueError"

\* the operations the last call asked of its collaborators, in order
Ops == [k \in DOMAIN last.log |-> last.log[k].op]
CallsOf(op) == SelectSeq(Ops, LAMBDA o : o = op)

(* C15: add_documents tries _get_or_create_db() without documents before    *)
(* any create.  When the path holds an index or the handle is cached, no    *)
(* create is issued, and a call that returns has issued one insert, after   *)
(* the handle was obtained.  A create is issued only after the invocation   *)
(* without documents raised the line-64 ValueError, only once, by the       *)
(* invocation that was given the chunks of this call.                       *)
C15_AppendBeforeCreate ==
    last.op = "add"
        => /\ last.opens # <<>> => last.opens[1].pending = None
           /\ (last.pre.dir = "nonempty" \/ last.pre.db # NoHandle)
                => /\ CallsOf("create") = <<>>
                   /\ last.kind = "ret"
                        => /\ Len(CallsOf("insert")) = 1
                           /\ db # NoHandle
                           /\ last.pre.db = NoHandle
                                => \E i, j \in DOMAIN Ops :
                                      i < j /\ Ops[i] = "load" /\ Ops[j] = "insert"
           /\ CallsOf("create") # <<>>
                => /\ Len(CallsOf("create")) = 1
                   /\ Len(last.opens) = 2
                   /\ last.opens[1].err = NoIndexError
                   /\ last.opens[2].pending = Some(last.chunks)
                   /\ Ops[Len(Ops)] = "create"
                   /\ last.opens[2].calls[Len(last.opens[2].calls)].op = "create"
                   /\ CallsOf("insert") = <<>>
                   /\ CallsOf("load") = <<>>

\* an index existed and no handle was cached: the call loaded it and appended
\* its chunks by an insert
C15_Witness ==
    /\ last.op = "add"
    /\ last.kind = "ret"
    /\ last.pre.dir = "nonempty"
    /\ last.pre.db = NoHandle
    /\ last.pre.index # <<>>
    /\ last.chunks # <<>>
    /\ Ops = <<"split", "makedirs", "listdir", "load", "insert">>
    /\ index = last.pre.index \o last.chunks

\* the operations of one _get_or_create_db invocation, and whether one raised
OpsOf(o) == [k \in DOMAIN o.calls |-> o.calls[k].op]
CollaboratorRaised(o) == \E k \in DOMAIN o.calls : o.calls[k].err # NoErr

(* C16: with no handle cached, _get_or_create_db decides on the emptiness   *)
(* of the directory alone.  Without documents it raises the line-64         *)
(* ValueError exactly when the directory was missing or empty (and the      *)
(* filesystem did not raise), and otherwise loads the index and caches the  *)
(* handle.  With documents it creates the index from them when the          *)
(* directory was missing or empty, and otherwise loads the index and        *)
(* inserts them once.  (The outcomes named are those of invocations in      *)
(* which no collaborator raised.)                                           *)
C16_DecidesOnDirectoryEmptiness ==
    \A k \in DOMAIN last.opens :
        LET o == last.opens[k]
        IN  o.cached = NoHandle
              => /\ o.err = NoIndexError
                      => ~o.pending.present /\ NeverPopulated(o.pre.dir)
                 /\ ~CollaboratorRaised(o)
                      => IF NeverPopulated(o.pre.dir)
                         THEN IF ~o.pending.present
                              THEN /\ o.err = NoIndexError
                                   /\ OpsOf(o) = <<"makedirs", "listdir">>
                                   /\ o.db = NoHandle
                              ELSE /\ o.err = NoErr
                                   /\ OpsOf(o) = <<"makedirs", "listdir", "create">>
                                   /\ o.post.dir = "nonempty"
                                   /\ o.post.index = o.pending.docs
                                   /\ o.db # NoHandle /\ o.ret = o.db
                         ELSE /\ o.err = NoErr
                              /\ o.db # NoHandle /\ o.ret = o.db
                              /\ o.post.dir = "nonempty"
                              /\ IF ~o.pending.present
                                 THEN /\ OpsOf(o) = <<"makedirs", "listdir", "load">>
                                      /\ o.post.index = o.pre.index
                                 ELSE /\ OpsOf(o) =
                                           <<"makedirs", "listdir", "load", "insert">>
                                      /\ o.post.index = o.pre.index \o o.pending.docs

\* an invocation with documents found an index, loaded it and inserted them
C16_Witness ==
    \E k \in DOMAIN last.opens :
        /\ last.opens[k].cached = NoHandle
        /\ last.opens[k].pending.present
        /\ last.opens[k].pending.docs # <<>>
        /\ last.opens[k].pre.index # <<>>
        /\ last.opens[k].err = NoErr
        /\ last.opens[k].post.index =
              last.opens[k].pre.index \o last.opens[k].pending.docs

(* C17: an instance opens its index at most once.  The Chroma objects it   *)
(* has constructed by a load or a create that succeeded number at most one  *)
(* (nextHandle counts them from 1), that object is the cached handle, and a *)
(* call that starts with a cached handle issues no load and no create and   *)
(* leaves the same handle cached.                                           *)
C17_IndexOpenedAtMostOnce ==
    /\ nextHandle = (IF db = NoHandle THEN 1 ELSE 2)
    /\ db # NoHandle => db = 1
    /\ (last.op # "none" /\ last.pre.db # NoHandle)
         => /\ db = last.pre.db
            /\ CallsOf("load") = <<>>
            /\ CallsOf("create") = <<>>

\* the handle was cached by an earlier call; this add_documents used it
C17_Witness ==
    /\ last.op = "add"
    /\ last.kind = "ret"
    /\ last.pre.db # NoHandle
    /\ db = last.pre.db
    /\ nAcked = 2
    /\ Ops = <<"split", "insert">>
    /\ index # last.pre.index

(* C18: the cached handle of an instance is monotonic and consistent with  *)
(* the store.  It is None while the instance has constructed no Chroma      *)
(* object; whenever it is set the directory holds an index and the handle   *)
(* is an object the instance got from a load or a create; a call in which   *)
(* the create raised leaves it None; and no step of the instance changes a  *)
(* handle that is set (Construct starts another instance).                  *)
C18_HandleMonotonic ==
    /\ [](/\ nextHandle = 1 => db = NoHandle
          /\ db # NoHandle => (dir = "nonempty" /\ db >= 1 /\ db < nextHandle)
          /\ (\E k \in DOMAIN last.log :
                 last.log[k].op = "create" /\ last.log[k].err # NoErr)
               => db = NoHandle)
    /\ [][Construct \/ (db # NoHandle => db' = db)]_vars

\* a call that raised while the handle was cached left it cached
C18_Witness ==
    /\ last.op # "none"
    /\ last.kind = "raise"
    /\ last.pre.db # NoHandle
    /\ db = last.pre.db
    /\ dir = "nonempty"

(* C19: an invocation of _get_or_create_db that raises the line-64         *)
(* ValueError changes nothing but the directory, which exists and is empty  *)
(* afterwards: it was given no documents, the handle stays None, no Chroma  *)
(* object is constructed, nothing is inserted, and its only collaborator    *)
(* calls are makedirs and the directory test.  So a search that raises this *)
(* error leaves an empty directory, and a search on an empty directory      *)
(* without handle raises it again unless the filesystem raises.             *)
C19_NoIndexFailureOnlyMakesDirectory ==
    /\ \A k \in DOMAIN last.opens :
          LET o == last.opens[k]
          IN  o.err = NoIndexError
                => /\ ~o.pending.present
                   /\ o.cached = NoHandle /\ o.db = NoHandle /\ o.ret = NoHandle
                   /\ o.post.dir = "empty"
                   /\ o.post.index = <<>> /\ o.pre.index = <<>>
                   /\ o.post.nh = o.pre.nh
                   /\ OpsOf(o) = <<"makedirs", "listdir">>
    /\ (last.op = "search" /\ last.err = NoIndexError)
          => /\ dir = "empty" /\ db = NoHandle /\ index = <<>>
             /\ nextHandle = 1
             /\ Ops = <<"makedirs", "listdir">>
    /\ (/\ last.op = "search"
        /\ last.pre.dir = "empty" /\ last.pre.db = NoHandle
        /\ RaisedByCollaborators = <<>>)
          => last.err = NoIndexError

\* a search on a missing directory raised the error and left the directory
\* empty
C19_Witness ==
    /\ last.op = "search"
    /\ last.pre.dir = "missing"
    /\ last.err = NoIndexError
    /\ dir = "empty"
    /\ db = NoHandle

----------------------------------------------------------------------------
(* Vocabulary of the interleaved calls *)

BothReturned == \A t \in Threads : thread[t].pc = "done" /\ thread[t].kind = "ret"

\* the chunks of the two batches
Batches == thread[1].splits \o thread[2].splits

\* the except clause of no caller caught an exception of a collaborator
NoneSwallowed == \A t \in Threads : thread[t].caught \in {NoErr, NoIndexError}

====
